---- MODULE Spec2Model ----
(***************************************************************************)
(* Indexed binary min-heap (heap-uint32.c) with its element -> slot side   *)
(* index kept in a hash table, and the chained hash table (ht-divchn.h).   *)
(* The heap is modelled from the source and uses its side index through    *)
(* insert / search / remove only; the chained hash table is modelled from  *)
(* its header and its specification, on its own.                           *)
(***************************************************************************)
EXTENDS Integers, Sequences, FiniteSets, TLC

(* ------------------------------ bounds -------------------------------- *)

\* width in bits of the index type (uint32_t in the source), scaled down
IndexBits == 3
\* element blocks have the bit patterns 1..NumKeys
NumKeys == 7
\* the caller of Spec pushes, updates and pops the elements 1..NumElts
NumElts == 4
\* priorities are the integers 0..MaxPty
MaxPty == 1
\* the init_heap_size argument of heap_uint32_init ranges over 1..MaxInitSize
MaxInitSize == 2
\* the hash table grows through the first NumPrimes primes of its sequence
NumPrimes == 3
\* keys of the hash table have the bit patterns 1..MaxKey
MaxKey == 4
\* elements (values) of the hash table are the integers 0..MaxVal
MaxVal == 1
\* the min_num argument of ht_divchn_init ranges over 0..MaxMinNum
MaxMinNum == 2
\* the alpha_n argument of ht_divchn_init ranges over 1..MaxAlphaN
MaxAlphaN == 2
\* the log_alpha_d argument of ht_divchn_init ranges over 0..MaxLogAlphaD
MaxLogAlphaD == 1
\* priorities of the heaps that are filled and drained are 0..MaxSiftPty
MaxSiftPty == 2

(* ------------------------ values and arithmetic ----------------------- *)

\* the NULL pointer returned by a search miss
NULL == -1
\* content of a block that malloc / realloc returned and nothing wrote yet
Uninit == -2
\* the address of a destructor of elements, a function pointer that is
\* not NULL
free_int_ptr == 1

Keys == 1..NumKeys
Elts == 1..NumElts
Ptys == 0..MaxPty

\* 1 << k
pow_two_uint64(k) == 2^k

\* conversion of an integer expression to the unsigned index type
u32(x) == x % pow_two_uint64(IndexBits)

\* the user comparison function of priorities (cmp_pty_fn)
cmp_int(a, b) == IF a > b THEN 1 ELSE IF a < b THEN -1 ELSE 0

(* ------------------ side index: key -> value hash table --------------- *)

\* an initialized table holds no key
ht_div_uint32_init == [k \in Keys |-> NULL]

\* upsert: a present key is associated with the new value
ht_div_uint32_insert(ht, key, val) == [ht EXCEPT ![key] = val]

\* the value of a present key, NULL for an absent key
ht_div_uint32_search(ht, key) == ht[key]

\* removes a key and its value; an absent key leaves the table unchanged
ht_div_uint32_remove(ht, key) == [ht EXCEPT ![key] = NULL]

\* number of keys present in a table
ht_num_elts(ht) == Cardinality({k \in Keys : ht[k] # NULL})

(* -------------------------------- heap -------------------------------- *)

\* a fresh block of n array slots
malloc(n) == [i \in 0..(n - 1) |-> Uninit]

\* block a resized to n slots, keeping the old contents
realloc(a, n) == [i \in 0..(n - 1) |-> IF i \in DOMAIN a THEN a[i] ELSE Uninit]

\* heap_uint32_init with the largest index value as the maximal heap size
heap_uint32_init_max_index(init_heap_size, free_elt_fn) ==
  LET max == u32(pow_two_uint64(IndexBits) - 1) IN
  [h |-> [heap_size     |-> init_heap_size,
          heap_max_size |-> max,
          num_elts      |-> 0,
          ptys          |-> malloc(init_heap_size),
          elts          |-> malloc(init_heap_size),
          ht            |-> ht_div_uint32_init,
          free_elt_fn   |-> free_elt_fn],
   aborted |-> ~(init_heap_size <= max)]

heap_uint32_init(init_heap_size, free_elt_fn) ==
  LET max == u32(pow_two_uint64(IndexBits) - 2) IN
  [h |-> [heap_size     |-> init_heap_size,
          heap_max_size |-> max,
          num_elts      |-> 0,
          ptys          |-> malloc(init_heap_size),
          elts          |-> malloc(init_heap_size),
          ht            |-> ht_div_uint32_init,
          free_elt_fn   |-> free_elt_fn],
   aborted |-> ~(init_heap_size <= max)]

pty_ptr(hp, i) == hp.ptys[i]
elt_ptr(hp, i) == hp.elts[i]

\* swap that leaves the priorities where they are
swap_elts_only(hp, i, j) ==
  IF i = j THEN hp
  ELSE LET elts == [hp.elts EXCEPT ![i] = hp.elts[j], ![j] = hp.elts[i]]
           ht1  == ht_div_uint32_insert(hp.ht, elts[i], i)
           ht2  == ht_div_uint32_insert(ht1, elts[j], j)
       IN [hp EXCEPT !.elts = elts, !.ht = ht2]

\* swap that updates the side index for slot i only
swap_one_insert(hp, i, j) ==
  IF i = j THEN hp
  ELSE LET elts == [hp.elts EXCEPT ![i] = hp.elts[j], ![j] = hp.elts[i]]
           ptys == [hp.ptys EXCEPT ![i] = hp.ptys[j], ![j] = hp.ptys[i]]
       IN [hp EXCEPT !.elts = elts, !.ptys = ptys,
                     !.ht = ht_div_uint32_insert(hp.ht, elts[i], i)]

\* swaps elements and priorities at i and j and updates the side index
swap(hp, i, j) ==
  IF i = j THEN hp
  ELSE LET elts == [hp.elts EXCEPT ![i] = hp.elts[j], ![j] = hp.elts[i]]
           ptys == [hp.ptys EXCEPT ![i] = hp.ptys[j], ![j] = hp.ptys[i]]
           ht1  == ht_div_uint32_insert(hp.ht, elts[i], i)
           ht2  == ht_div_uint32_insert(ht1, elts[j], j)
       IN [hp EXCEPT !.elts = elts, !.ptys = ptys, !.ht = ht2]

\* heap_grow with the comparison of its clamp test reversed
heap_grow_reversed(hp) ==
  IF ~(hp.heap_size < hp.heap_max_size)
  THEN [h |-> hp, aborted |-> TRUE]
  ELSE LET size == IF u32(hp.heap_max_size - hp.heap_size) > hp.heap_size
                   THEN hp.heap_max_size
                   ELSE u32(hp.heap_size * 2)
       IN [h |-> [hp EXCEPT !.heap_size = size,
                            !.elts = realloc(hp.elts, size),
                            !.ptys = realloc(hp.ptys, size)],
           aborted |-> FALSE]

\* heap_grow that fails where doubling would pass the maximal heap size
heap_grow_no_clamp(hp) ==
  IF ~(hp.heap_size < hp.heap_max_size)
        \/ u32(hp.heap_max_size - hp.heap_size) < hp.heap_size
  THEN [h |-> hp, aborted |-> TRUE]
  ELSE LET size == u32(hp.heap_size * 2)
       IN [h |-> [hp EXCEPT !.heap_size = size,
                            !.elts = realloc(hp.elts, size),
                            !.ptys = realloc(hp.ptys, size)],
           aborted |-> FALSE]

\* doubles the size of a heap up to the maximal heap size
heap_grow(hp) ==
  IF ~(hp.heap_size < hp.heap_max_size)
  THEN [h |-> hp, aborted |-> TRUE]
  ELSE LET size == IF u32(hp.heap_max_size - hp.heap_size) < hp.heap_size
                   THEN hp.heap_max_size
                   ELSE u32(hp.heap_size * 2)
       IN [h |-> [hp EXCEPT !.heap_size = size,
                            !.elts = realloc(hp.elts, size),
                            !.ptys = realloc(hp.ptys, size)],
           aborted |-> FALSE]

\* heapify_up with an if in place of its while
heapify_up_once(hp, i) ==
  IF i > 0 /\ cmp_int(pty_ptr(hp, u32(i - 1) \div 2), pty_ptr(hp, i)) > 0
  THEN swap(hp, i, u32(i - 1) \div 2)
  ELSE hp

RECURSIVE heapify_up_nonstrict(_, _)
\* heapify_up that also swaps with a parent of equal priority
heapify_up_nonstrict(hp, i) ==
  IF i > 0
  THEN LET ju == u32(i - 1) \div 2 IN
       IF cmp_int(pty_ptr(hp, ju), pty_ptr(hp, i)) >= 0
       THEN heapify_up_nonstrict(swap(hp, i, ju), ju)
       ELSE hp
  ELSE hp

RECURSIVE heapify_up(_, _)
\* heapifies from the ith element upwards
heapify_up(hp, i) ==
  IF i > 0
  THEN LET ju == u32(i - 1) \div 2 IN
       IF cmp_int(pty_ptr(hp, ju), pty_ptr(hp, i)) > 0
       THEN heapify_up(swap(hp, i, ju), ju)
       ELSE hp
  ELSE hp

RECURSIVE heapify_down_loop_right_ties(_, _)
\* the while loop of heapify_down with the right child taken on a tie
heapify_down_loop_right_ties(hp, i) ==
  IF u32(i + 2) <= u32(hp.num_elts - 1 - i)
  THEN LET jl == u32(2 * i + 1)
           jr == u32(2 * i + 2)
       IN IF /\ cmp_int(pty_ptr(hp, i), pty_ptr(hp, jl)) > 0
             /\ cmp_int(pty_ptr(hp, jl), pty_ptr(hp, jr)) < 0
          THEN heapify_down_loop_right_ties(swap(hp, i, jl), jl)
          ELSE IF cmp_int(pty_ptr(hp, i), pty_ptr(hp, jr)) > 0
          THEN heapify_down_loop_right_ties(swap(hp, i, jr), jr)
          ELSE [h |-> hp, i |-> i]
  ELSE [h |-> hp, i |-> i]

RECURSIVE heapify_down_loop(_, _)
\* the while loop of heapify_down: both children have elements
heapify_down_loop(hp, i) ==
  IF u32(i + 2) <= u32(hp.num_elts - 1 - i)
  THEN LET jl == u32(2 * i + 1)
           jr == u32(2 * i + 2)
       IN IF /\ cmp_int(pty_ptr(hp, i), pty_ptr(hp, jl)) > 0
             /\ cmp_int(pty_ptr(hp, jl), pty_ptr(hp, jr)) <= 0
          THEN heapify_down_loop(swap(hp, i, jl), jl)
          ELSE IF cmp_int(pty_ptr(hp, i), pty_ptr(hp, jr)) > 0
          THEN heapify_down_loop(swap(hp, i, jr), jr)
          ELSE [h |-> hp, i |-> i]
  ELSE [h |-> hp, i |-> i]

RECURSIVE heapify_down_left(_, _)
\* heapify_down that never looks at a right child
heapify_down_left(hp, i) ==
  IF ~(hp.num_elts > 0 /\ i < hp.num_elts)
  THEN [h |-> hp, aborted |-> TRUE]
  ELSE IF u32(2 * i + 1) < hp.num_elts
          /\ cmp_int(pty_ptr(hp, i), pty_ptr(hp, u32(2 * i + 1))) > 0
  THEN heapify_down_left(swap(hp, i, u32(2 * i + 1)), u32(2 * i + 1))
  ELSE [h |-> hp, aborted |-> FALSE]

\* heapifies from the ith element downwards
heapify_down(hp, i) ==
  IF ~(hp.num_elts > 0 /\ i < hp.num_elts)
  THEN [h |-> hp, aborted |-> TRUE]
  ELSE LET r  == heapify_down_loop(hp, i)
           jl == u32(2 * r.i + 1)
       IN [h |-> IF u32(r.i + 1) = u32(r.h.num_elts - 1 - r.i)
                 THEN IF cmp_int(pty_ptr(r.h, r.i), pty_ptr(r.h, jl)) > 0
                      THEN swap(r.h, r.i, jl)
                      ELSE r.h
                 ELSE r.h,
           aborted |-> FALSE]

RECURSIVE heapify_up_swaps(_, _)
\* the calls of swap that heapify_up makes, as pairs <<i, ju>>, in order
heapify_up_swaps(hp, i) ==
  IF i > 0
  THEN LET ju == u32(i - 1) \div 2 IN
       IF cmp_int(pty_ptr(hp, ju), pty_ptr(hp, i)) > 0
       THEN <<<<i, ju>>>> \o heapify_up_swaps(swap(hp, i, ju), ju)
       ELSE <<>>
  ELSE <<>>

RECURSIVE heapify_down_loop_swaps(_, _)
\* the calls of swap that the while loop of heapify_down makes, in order
heapify_down_loop_swaps(hp, i) ==
  IF u32(i + 2) <= u32(hp.num_elts - 1 - i)
  THEN LET jl == u32(2 * i + 1)
           jr == u32(2 * i + 2)
       IN IF /\ cmp_int(pty_ptr(hp, i), pty_ptr(hp, jl)) > 0
             /\ cmp_int(pty_ptr(hp, jl), pty_ptr(hp, jr)) <= 0
          THEN <<<<i, jl>>>> \o heapify_down_loop_swaps(swap(hp, i, jl), jl)
          ELSE IF cmp_int(pty_ptr(hp, i), pty_ptr(hp, jr)) > 0
          THEN <<<<i, jr>>>> \o heapify_down_loop_swaps(swap(hp, i, jr), jr)
          ELSE <<>>
  ELSE <<>>

\* the calls of swap that heapify_down makes, as pairs <<i, j>>, in order
heapify_down_swaps(hp, i) ==
  LET r  == heapify_down_loop(hp, i)
      jl == u32(2 * r.i + 1)
  IN heapify_down_loop_swaps(hp, i)
     \o (IF /\ u32(r.i + 1) = u32(r.h.num_elts - 1 - r.i)
            /\ cmp_int(pty_ptr(r.h, r.i), pty_ptr(r.h, jl)) > 0
         THEN <<<<r.i, jl>>>>
         ELSE <<>>)

RECURSIVE swaps_apply(_, _, _)
\* the heap after the first k calls of swap of a sequence of calls
swaps_apply(hp, swaps, k) ==
  IF k = 0 THEN hp
  ELSE LET hk == swaps_apply(hp, swaps, k - 1)
       IN swap(hk, swaps[k][1], swaps[k][2])

\* heap_uint32_push without its call of heapify_up
heap_uint32_push_no_heapify(hp, pty, elt) ==
  LET g == IF hp.heap_size = hp.num_elts
           THEN heap_grow(hp)
           ELSE [h |-> hp, aborted |-> FALSE]
  IN IF g.aborted
     THEN [h |-> hp, aborted |-> TRUE]
     ELSE LET ix == g.h.num_elts
              h1 == [g.h EXCEPT !.elts[ix] = elt,
                                !.ptys[ix] = pty,
                                !.ht = ht_div_uint32_insert(g.h.ht, elt, ix),
                                !.num_elts = u32(ix + 1)]
          IN [h |-> h1, aborted |-> FALSE]

\* pushes an element that is not in the heap with its priority
heap_uint32_push(hp, pty, elt) ==
  LET g == IF hp.heap_size = hp.num_elts
           THEN heap_grow(hp)
           ELSE [h |-> hp, aborted |-> FALSE]
  IN IF g.aborted
     THEN [h |-> hp, aborted |-> TRUE]
     ELSE LET ix == g.h.num_elts
              h1 == [g.h EXCEPT !.elts[ix] = elt,
                                !.ptys[ix] = pty,
                                !.ht = ht_div_uint32_insert(g.h.ht, elt, ix),
                                !.num_elts = u32(ix + 1)]
          IN [h |-> heapify_up(h1, ix), aborted |-> FALSE]

\* the priority of an element in the heap, NULL if it is not in the heap
heap_uint32_search(hp, elt) ==
  LET ix_ptr == ht_div_uint32_search(hp.ht, elt)
  IN IF ix_ptr # NULL THEN pty_ptr(hp, ix_ptr) ELSE NULL

\* heap_uint32_update without its call of heapify_down
heap_uint32_update_up_only(hp, pty, elt) ==
  LET ix_ptr == ht_div_uint32_search(hp.ht, elt)
  IN IF ~(ix_ptr # NULL)
     THEN [h |-> hp, aborted |-> TRUE]
     ELSE LET ix == ix_ptr
              h1 == [hp EXCEPT !.ptys[ix] = pty]
          IN [h |-> heapify_up(h1, ix), aborted |-> FALSE]

\* heap_uint32_update without its assertion, a miss taken as slot 0
heap_uint32_update_no_assert(hp, pty, elt) ==
  LET ix_ptr == ht_div_uint32_search(hp.ht, elt)
  IN IF ~(ix_ptr # NULL)
     THEN [h |-> [hp EXCEPT !.ptys[0] = pty], aborted |-> FALSE]
     ELSE LET ix == ix_ptr
              h1 == [hp EXCEPT !.ptys[ix] = pty]
          IN heapify_down(heapify_up(h1, ix), ix)

\* updates the priority of an element that is in the heap
heap_uint32_update(hp, pty, elt) ==
  LET ix_ptr == ht_div_uint32_search(hp.ht, elt)
  IN IF ~(ix_ptr # NULL)
     THEN [h |-> hp, aborted |-> TRUE]
     ELSE LET ix == ix_ptr
              h1 == [hp EXCEPT !.ptys[ix] = pty]
          IN heapify_down(heapify_up(h1, ix), ix)

\* heap_uint32_pop without its call of ht_div_uint32_remove
heap_uint32_pop_keep_key(hp, pty, elt) ==
  IF hp.num_elts = 0
  THEN [h |-> hp, aborted |-> FALSE, pty |-> pty, elt |-> elt]
  ELSE LET ix   == 0
           elt1 == elt_ptr(hp, ix)
           pty1 == pty_ptr(hp, ix)
           h1   == swap(hp, ix, u32(hp.num_elts - 1))
           h2   == [h1 EXCEPT !.num_elts = u32(h1.num_elts - 1)]
           d    == IF h2.num_elts > 0
                   THEN heapify_down(h2, ix)
                   ELSE [h |-> h2, aborted |-> FALSE]
       IN [h |-> d.h, aborted |-> d.aborted, pty |-> pty1, elt |-> elt1]

\* heap_uint32_pop without its call of heapify_down
heap_uint32_pop_no_heapify(hp, pty, elt) ==
  IF hp.num_elts = 0
  THEN [h |-> hp, aborted |-> FALSE, pty |-> pty, elt |-> elt]
  ELSE LET ix   == 0
           elt1 == elt_ptr(hp, ix)
           pty1 == pty_ptr(hp, ix)
           h1   == swap(hp, ix, u32(hp.num_elts - 1))
           h2   == [h1 EXCEPT !.ht = ht_div_uint32_remove(h1.ht, elt1),
                              !.num_elts = u32(h1.num_elts - 1)]
       IN [h |-> h2, aborted |-> FALSE, pty |-> pty1, elt |-> elt1]

\* heap_uint32_pop that clears the two blocks when the heap is empty
heap_uint32_pop_clear_empty(hp, pty, elt) ==
  IF hp.num_elts = 0
  THEN [h |-> hp, aborted |-> FALSE, pty |-> NULL, elt |-> NULL]
  ELSE LET ix   == 0
           elt1 == elt_ptr(hp, ix)
           pty1 == pty_ptr(hp, ix)
           h1   == swap(hp, ix, u32(hp.num_elts - 1))
           h2   == [h1 EXCEPT !.ht = ht_div_uint32_remove(h1.ht, elt1),
                              !.num_elts = u32(h1.num_elts - 1)]
           d    == IF h2.num_elts > 0
                   THEN heapify_down(h2, ix)
                   ELSE [h |-> h2, aborted |-> FALSE]
       IN [h |-> d.h, aborted |-> d.aborted, pty |-> pty1, elt |-> elt1]

\* pops an element with a minimal priority; pty and elt are the contents
\* of the two blocks the caller passes, before and after the call
heap_uint32_pop(hp, pty, elt) ==
  IF hp.num_elts = 0
  THEN [h |-> hp, aborted |-> FALSE, pty |-> pty, elt |-> elt]
  ELSE LET ix   == 0
           elt1 == elt_ptr(hp, ix)
           pty1 == pty_ptr(hp, ix)
           h1   == swap(hp, ix, u32(hp.num_elts - 1))
           h2   == [h1 EXCEPT !.ht = ht_div_uint32_remove(h1.ht, elt1),
                              !.num_elts = u32(h1.num_elts - 1)]
           d    == IF h2.num_elts > 0
                   THEN heapify_down(h2, ix)
                   ELSE [h |-> h2, aborted |-> FALSE]
       IN [h |-> d.h, aborted |-> d.aborted, pty |-> pty1, elt |-> elt1]

\* heap_uint32_free with its loop running over the heap_size slots
heap_uint32_free_all_slots(hp) ==
  [h |-> [hp EXCEPT !.elts = NULL, !.ptys = NULL, !.ht = NULL],
   freed |-> IF hp.free_elt_fn # NULL
             THEN [i \in 1..hp.heap_size |-> elt_ptr(hp, i - 1)]
             ELSE <<>>]

\* frees a heap; freed is the sequence of the blocks that free_elt_fn was
\* called on, in the order of the calls
heap_uint32_free(hp) ==
  [h |-> [hp EXCEPT !.elts = NULL, !.ptys = NULL, !.ht = NULL],
   freed |-> IF hp.free_elt_fn # NULL
             THEN [i \in 1..hp.num_elts |-> elt_ptr(hp, i - 1)]
             ELSE <<>>]

(* ------------------ chained hash table (ht-divchn) -------------------- *)

HtKeys == 1..MaxKey
HtElts == 0..MaxVal

\* the precomputed sequence of primes the count of slots is drawn from,
\* scaled down; the last representable prime is the one at C_LAST_PRIME_IX
C_PRIME_PARTS == <<2, 3, 5, 7, 11>>
C_LAST_PRIME_IX == NumPrimes

\* division method: the slot of a key of one byte, H(key) mod count
hash(key, count) == key % count

\* a chain is the sequence of its nodes from the head; a node is a pair of
\* copies of a key and an element
dll_prepend_new(head, key, elt) == <<[key |-> key, elt |-> elt]>> \o head

\* the first node of a chain with the key, NULL if there is none
dll_search_key(head, key) ==
  IF \E i \in DOMAIN head : head[i].key = key
  THEN CHOOSE i \in DOMAIN head :
         /\ head[i].key = key
         /\ \A j \in 1..(i - 1) : head[j].key # key
  ELSE NULL

\* an empty chain: the head pointer is NULL
dll_init == <<>>

\* a new node after the last node of a chain
dll_append_new(head, key, elt) == Append(head, [key |-> key, elt |-> elt])

\* dll_delete that takes NULL as the head node
dll_delete_null_head(head, node) ==
  IF head = <<>> THEN head
  ELSE IF node = NULL THEN Tail(head)
  ELSE SubSeq(head, 1, node - 1) \o SubSeq(head, node + 1, Len(head))

\* unlinks a node from a chain; NULL as the node leaves the chain as it is
dll_delete(head, node) ==
  IF node = NULL THEN head
  ELSE SubSeq(head, 1, node - 1) \o SubSeq(head, node + 1, Len(head))

\* n keys in count slots exceed the load factor upper bound
\* alpha_n / 2^log_alpha_d
load_exceeded(n, count, alpha_n, log_alpha_d) ==
  n * pow_two_uint64(log_alpha_d) > count * alpha_n

RECURSIVE incr_count(_, _, _, _)
\* growth steps from the prime at count_ix: the next prime is chosen while n
\* keys exceed the load factor bound and the last prime is not reached
incr_count(count_ix, n, alpha_n, log_alpha_d) ==
  IF /\ load_exceeded(n, C_PRIME_PARTS[count_ix], alpha_n, log_alpha_d)
     /\ count_ix # C_LAST_PRIME_IX
  THEN incr_count(count_ix + 1, n, alpha_n, log_alpha_d)
  ELSE count_ix

\* ht_divchn_init that starts at the first prime whatever min_num is
ht_divchn_init_first_prime(min_num, alpha_n, log_alpha_d, free_elt) ==
  [count_ix    |-> 1,
   count       |-> C_PRIME_PARTS[1],
   num_elts    |-> 0,
   alpha_n     |-> alpha_n,
   log_alpha_d |-> log_alpha_d,
   key_elts    |-> [ix \in 0..(C_PRIME_PARTS[1] - 1) |-> <<>>],
   free_elt    |-> free_elt]

\* an empty table, pre-sized for min_num keys
ht_divchn_init(min_num, alpha_n, log_alpha_d, free_elt) ==
  LET count_ix == incr_count(1, min_num, alpha_n, log_alpha_d) IN
  [count_ix    |-> count_ix,
   count       |-> C_PRIME_PARTS[count_ix],
   num_elts    |-> 0,
   alpha_n     |-> alpha_n,
   log_alpha_d |-> log_alpha_d,
   key_elts    |-> [ix \in 0..(C_PRIME_PARTS[count_ix] - 1) |-> <<>>],
   free_elt    |-> free_elt]

RECURSIVE ht_nodes(_, _)
\* the nodes of the chains of the slots ix, ix + 1, ..., each chain from
\* its head
ht_nodes(ht, ix) ==
  IF ix >= ht.count THEN <<>>
  ELSE ht.key_elts[ix] \o ht_nodes(ht, ix + 1)

RECURSIVE rehash_overwrite(_, _, _)
\* rehash that sets the head of a chain to the node moved, dropping the
\* nodes moved to the chain before
rehash_overwrite(key_elts, nodes, count) ==
  IF nodes = <<>> THEN key_elts
  ELSE LET ix == hash(Head(nodes).key, count) IN
       rehash_overwrite([key_elts EXCEPT ![ix] = <<Head(nodes)>>],
                        Tail(nodes), count)

RECURSIVE rehash(_, _, _)
\* moves the nodes of a sequence, in its order, to the heads of the chains
\* of their slots H(k) mod count
rehash(key_elts, nodes, count) ==
  IF nodes = <<>> THEN key_elts
  ELSE LET ix == hash(Head(nodes).key, count) IN
       rehash([key_elts EXCEPT ![ix] = <<Head(nodes)>> \o key_elts[ix]],
              Tail(nodes), count)

\* ht_grow that changes the count of slots by one prime only
ht_grow_one_prime(ht) ==
  LET count_ix == ht.count_ix + 1
      count    == C_PRIME_PARTS[count_ix]
  IN [ht EXCEPT !.count_ix = count_ix,
                !.count = count,
                !.key_elts = rehash([ix \in 0..(count - 1) |-> <<>>],
                                    ht_nodes(ht, 0), count)]

\* ht_grow that leaves the nodes in the slots they had
ht_grow_keep_slots(ht) ==
  LET count_ix == incr_count(ht.count_ix, ht.num_elts,
                             ht.alpha_n, ht.log_alpha_d)
      count    == C_PRIME_PARTS[count_ix]
  IN [ht EXCEPT !.count_ix = count_ix,
                !.count = count,
                !.key_elts = [ix \in 0..(count - 1) |->
                                IF ix < ht.count THEN ht.key_elts[ix]
                                ELSE <<>>]]

\* growth and rehash: the count of slots becomes the next prime that keeps
\* the load factor bound, or the last prime, and every node is moved to the
\* chain of its slot in a new array of slots
ht_grow(ht) ==
  LET count_ix == incr_count(ht.count_ix, ht.num_elts,
                             ht.alpha_n, ht.log_alpha_d)
      count    == C_PRIME_PARTS[count_ix]
  IN [ht EXCEPT !.count_ix = count_ix,
                !.count = count,
                !.key_elts = rehash([ix \in 0..(count - 1) |-> <<>>],
                                    ht_nodes(ht, 0), count)]

\* ht_divchn_insert that prepends a node also for a key that is present
ht_divchn_insert_prepend(ht, key, elt) ==
  LET ix   == hash(key, ht.count)
      head == ht.key_elts[ix]
      new  == [ht EXCEPT !.key_elts[ix] = dll_prepend_new(head, key, elt),
                         !.num_elts = ht.num_elts + 1]
  IN IF /\ load_exceeded(ht.num_elts + 1, ht.count,
                         ht.alpha_n, ht.log_alpha_d)
        /\ ht.count_ix # C_LAST_PRIME_IX
     THEN ht_grow(new)
     ELSE new

\* inserts a key and an element; a key that is present is associated with
\* the new element
ht_divchn_insert(ht, key, elt) ==
  LET ix   == hash(key, ht.count)
      head == ht.key_elts[ix]
      node == dll_search_key(head, key)
  IN IF node # NULL
     THEN [ht EXCEPT !.key_elts[ix][node].elt = elt]
     ELSE LET new == [ht EXCEPT
                        !.key_elts[ix] = dll_prepend_new(head, key, elt),
                        !.num_elts = ht.num_elts + 1]
          IN IF /\ load_exceeded(ht.num_elts + 1, ht.count,
                                 ht.alpha_n, ht.log_alpha_d)
                /\ ht.count_ix # C_LAST_PRIME_IX
             THEN ht_grow(new)
             ELSE new

\* the element of a key that is present, NULL for an absent key
ht_divchn_search(ht, key) ==
  LET head == ht.key_elts[hash(key, ht.count)]
      node == dll_search_key(head, key)
  IN IF node # NULL THEN head[node].elt ELSE NULL

\* ht_divchn_remove that clears the block of the caller for an absent key
ht_divchn_remove_clear(ht, key, elt) ==
  LET ix   == hash(key, ht.count)
      head == ht.key_elts[ix]
      node == dll_search_key(head, key)
  IN IF node # NULL
     THEN [ht  |-> [ht EXCEPT !.key_elts[ix] = dll_delete(head, node),
                              !.num_elts = ht.num_elts - 1],
           elt |-> head[node].elt]
     ELSE [ht |-> ht, elt |-> NULL]

\* removes a key and copies its element into the block of the caller; elt
\* is the content of this block before and after the call
ht_divchn_remove(ht, key, elt) ==
  LET ix   == hash(key, ht.count)
      head == ht.key_elts[ix]
      node == dll_search_key(head, key)
  IN IF node # NULL
     THEN [ht  |-> [ht EXCEPT !.key_elts[ix] = dll_delete(head, node),
                              !.num_elts = ht.num_elts - 1],
           elt |-> head[node].elt]
     ELSE [ht |-> ht, elt |-> elt]

\* ht_divchn_delete that passes the element of the head of the chain to
\* free_elt
ht_divchn_delete_head(ht, key) ==
  LET ix   == hash(key, ht.count)
      head == ht.key_elts[ix]
      node == dll_search_key(head, key)
  IN IF node # NULL
     THEN [ht    |-> [ht EXCEPT !.key_elts[ix] = dll_delete(head, node),
                                !.num_elts = ht.num_elts - 1],
           freed |-> IF ht.free_elt # NULL THEN <<head[1].elt>> ELSE <<>>]
     ELSE [ht |-> ht, freed |-> <<>>]

\* deletes a key and its element according to free_elt; freed is the
\* sequence of the elements that free_elt was called on
ht_divchn_delete(ht, key) ==
  LET ix   == hash(key, ht.count)
      head == ht.key_elts[ix]
      node == dll_search_key(head, key)
  IN IF node # NULL
     THEN [ht    |-> [ht EXCEPT !.key_elts[ix] = dll_delete(head, node),
                                !.num_elts = ht.num_elts - 1],
           freed |-> IF ht.free_elt # NULL THEN <<head[node].elt>> ELSE <<>>]
     ELSE [ht |-> ht, freed |-> <<>>]

(* ---------------------------- state machine --------------------------- *)

VARIABLES
  h,        \* the heap_uint32_t struct
  aborted,  \* TRUE once an assertion failed and the process was aborted
  pty_out,  \* the caller's block that heap_uint32_pop writes a priority to
  elt_out,  \* the caller's block that heap_uint32_pop writes an element to
  op,       \* the last call: name, arguments, num_elts and heap_size before
            \* it, and the number of pops of a non-empty heap in a row up to it
  assoc,    \* element -> priority of its latest push or update while it is
            \* pushed and not popped, NULL otherwise
  freed,    \* the blocks that free_elt_fn was called on, in call order
  tbl,      \* the ht_divchn_t struct of a hash table used on its own
  tbl_elt,  \* the caller's block that ht_divchn_remove writes an element to
  tbl_op,   \* the last call on the table: name, arguments, whether the key
            \* was present and the count of slots before it, the elements
            \* free_elt was called on
  tbl_map,  \* key -> element of its latest insert that no remove or delete
            \* of the key followed, NULL otherwise
  tbl_min_num, \* the min_num argument the table was initialized with
  list,     \* a chain used on its own: its nodes from the head
  list_op,  \* the last call on the chain: name, key, node, and built: how
            \* the nodes were inserted so far (prepend, append or mixed)
  list_hist \* the keys of the nodes of the chain, in the order of insertion

heap_vars == <<h, aborted, pty_out, elt_out, op, assoc, freed>>
tbl_vars == <<tbl, tbl_elt, tbl_op, tbl_map, tbl_min_num>>
dll_vars == <<list, list_op, list_hist>>
vars == <<h, aborted, pty_out, elt_out, op, assoc, freed,
          tbl, tbl_elt, tbl_op, tbl_map, tbl_min_num,
          list, list_op, list_hist>>

\* no heap was initialized
no_heap ==
  /\ h = Uninit
  /\ aborted = FALSE
  /\ pty_out = Uninit
  /\ elt_out = Uninit
  /\ op = [name |-> "none", pty |-> NULL, elt |-> NULL, n |-> 0,
           size |-> 0, run |-> 0]
  /\ assoc = [e \in Keys |-> NULL]
  /\ freed = <<>>

\* no hash table was initialized other than the side index of the heap
no_tbl ==
  /\ tbl = Uninit
  /\ tbl_elt = Uninit
  /\ tbl_op = [name |-> "none", key |-> NULL, elt |-> NULL,
               found |-> FALSE, count |-> 0, freed |-> <<>>]
  /\ tbl_map = [k \in HtKeys |-> NULL]
  /\ tbl_min_num = 0

\* no chain is used other than the chains of a hash table
no_dll ==
  /\ list = Uninit
  /\ list_op = [name |-> "none", key |-> NULL, node |-> NULL,
                built |-> "none"]
  /\ list_hist = <<>>

\* a heap initialized with one of the given destructors
heap_init(free_elt_fns) ==
  \E init_heap_size \in 1..MaxInitSize, free_elt_fn \in free_elt_fns :
    LET r == heap_uint32_init(init_heap_size, free_elt_fn) IN
    /\ h = r.h
    /\ aborted = r.aborted
    /\ pty_out = Uninit
    /\ elt_out = Uninit
    /\ op = [name |-> "init", pty |-> NULL, elt |-> NULL, n |-> 0,
             size |-> 0, run |-> 0]
    /\ assoc = [e \in Keys |-> NULL]
    /\ freed = <<>>

\* elements are copied into the heap: NULL as free_elt_fn
Init == heap_init({NULL}) /\ no_tbl /\ no_dll

\* a caller that pushes elements that are not in the heap
Push(pty, elt) ==
  /\ ~aborted
  /\ op.name # "free"
  /\ heap_uint32_search(h, elt) = NULL
  /\ LET r == heap_uint32_push(h, pty, elt) IN
     /\ h' = r.h
     /\ aborted' = r.aborted
     /\ assoc' = IF r.aborted THEN assoc ELSE [assoc EXCEPT ![elt] = pty]
  /\ op' = [name |-> "push", pty |-> pty, elt |-> elt, n |-> h.num_elts,
            size |-> h.heap_size, run |-> 0]
  /\ UNCHANGED <<pty_out, elt_out, freed>>
  /\ UNCHANGED <<tbl_vars, dll_vars>>

Update(pty, elt) ==
  /\ ~aborted
  /\ op.name # "free"
  /\ LET r == heap_uint32_update(h, pty, elt) IN
     /\ h' = r.h
     /\ aborted' = r.aborted
     /\ assoc' = IF r.aborted THEN assoc ELSE [assoc EXCEPT ![elt] = pty]
  /\ op' = [name |-> "update", pty |-> pty, elt |-> elt, n |-> h.num_elts,
            size |-> h.heap_size, run |-> 0]
  /\ UNCHANGED <<pty_out, elt_out, freed>>
  /\ UNCHANGED <<tbl_vars, dll_vars>>

Pop ==
  /\ ~aborted
  /\ op.name # "free"
  /\ LET r == heap_uint32_pop(h, pty_out, elt_out) IN
     /\ h' = r.h
     /\ aborted' = r.aborted
     /\ pty_out' = r.pty
     /\ elt_out' = r.elt
     /\ assoc' = IF h.num_elts = 0 THEN assoc
                 ELSE [e \in Keys |-> IF e = r.elt THEN NULL ELSE assoc[e]]
  /\ op' = [name |-> "pop", pty |-> NULL, elt |-> NULL, n |-> h.num_elts,
            size |-> h.heap_size,
            run |-> IF h.num_elts = 0 THEN 0 ELSE op.run + 1]
  /\ UNCHANGED freed
  /\ UNCHANGED <<tbl_vars, dll_vars>>

Next ==
  \/ \E pty \in Ptys, elt \in Elts : Push(pty, elt)
  \/ \E pty \in Ptys, elt \in Elts : Update(pty, elt)
  \/ Pop

Spec == Init /\ [][Next]_vars

\* a caller that fills a heap and then drains it: it pushes the elements
\* 1, 2, ... in this order, each once, possibly until a push is fatal, and
\* pops once it stopped pushing
PushNext(pty) ==
  /\ op.name \in {"init", "push"}
  /\ h.num_elts < NumKeys
  /\ Push(pty, h.num_elts + 1)

NextFill ==
  \/ \E pty \in Ptys : PushNext(pty)
  \/ Pop

SpecFill == Init /\ [][NextFill]_vars

\* a caller that fills and drains a heap with a wider range of priorities
SiftPtys == 0..MaxSiftPty

NextSift ==
  \/ \E pty \in SiftPtys : PushNext(pty)
  \/ Pop

SpecSift == Init /\ [][NextSift]_vars

\* the heaps that heap_uint32_update passes to heapify_up: one priority
\* of the heap overwritten; i is the slot of the element
update_heapify_up_args ==
  IF aborted THEN {}
  ELSE {[h |-> [h EXCEPT !.ptys[ht_div_uint32_search(h.ht, e)] = p],
         i |-> ht_div_uint32_search(h.ht, e)] :
          e \in {k \in Keys : ht_div_uint32_search(h.ht, k) # NULL},
          p \in SiftPtys}

\* the heaps that heap_uint32_push passes to heapify_up in the pushes of an
\* element that is not in the heap; i is the slot of the new element
push_heapify_up_args ==
  IF aborted THEN {}
  ELSE {[h |-> heap_uint32_push_no_heapify(h, p, e).h, i |-> h.num_elts] :
          e \in {k \in Keys : /\ ht_div_uint32_search(h.ht, k) = NULL
                              /\ h.num_elts < h.heap_max_size},
          p \in SiftPtys}

\* the heaps and slots that heap_uint32_update and heap_uint32_pop pass to
\* heapify_down in the calls a caller can make in the current state
heapify_down_args ==
  IF aborted THEN {}
  ELSE {[h |-> heapify_up(a.h, a.i), i |-> a.i] : a \in update_heapify_up_args}
       \cup (IF h.num_elts > 1
             THEN LET h1 == swap(h, 0, u32(h.num_elts - 1))
                  IN {[h |-> [h1 EXCEPT
                                !.ht = ht_div_uint32_remove(h1.ht,
                                                            elt_ptr(h, 0)),
                                !.num_elts = u32(h1.num_elts - 1)],
                       i |-> 0]}
             ELSE {})

\* a caller that pushes elements of one priority, in the order 1, 2, ...
PushTie(pty) ==
  /\ op.name = "push" => pty = op.pty
  /\ PushNext(pty)

NextTie ==
  \/ \E pty \in SiftPtys : PushTie(pty)
  \/ Pop

SpecTie == Init /\ [][NextTie]_vars

\* the heap is freed, once, and not used afterwards
Free ==
  /\ ~aborted
  /\ op.name # "free"
  /\ LET r == heap_uint32_free(h) IN
     /\ h' = r.h
     /\ freed' = r.freed
  /\ op' = [name |-> "free", pty |-> NULL, elt |-> NULL, n |-> h.num_elts,
            size |-> h.heap_size, run |-> 0]
  /\ UNCHANGED <<aborted, pty_out, elt_out, assoc>>
  /\ UNCHANGED <<tbl_vars, dll_vars>>

\* elements are owned by the heap or copied into it
InitFree == heap_init({NULL, free_int_ptr}) /\ no_tbl /\ no_dll

\* a caller that fills a heap, pops some of its elements and frees it
NextFree ==
  \/ \E pty \in Ptys : PushNext(pty)
  \/ Pop
  \/ Free

SpecFree == InitFree /\ [][NextFree]_vars

\* a hash table on its own, initialized empty
InitHt ==
  /\ no_heap
  /\ no_dll
  /\ \E min_num \in 0..MaxMinNum, alpha_n \in 1..MaxAlphaN,
        log_alpha_d \in 0..MaxLogAlphaD, free_elt \in {NULL, free_int_ptr} :
       /\ tbl = ht_divchn_init(min_num, alpha_n, log_alpha_d, free_elt)
       /\ tbl_min_num = min_num
  /\ tbl_elt = Uninit
  /\ tbl_op = [name |-> "init", key |-> NULL, elt |-> NULL,
               found |-> FALSE, count |-> 0, freed |-> <<>>]
  /\ tbl_map = [k \in HtKeys |-> NULL]

Insert(key, elt) ==
  /\ tbl' = ht_divchn_insert(tbl, key, elt)
  /\ tbl_map' = [tbl_map EXCEPT ![key] = elt]
  /\ tbl_op' = [name |-> "insert", key |-> key, elt |-> elt,
                found |-> tbl_map[key] # NULL, count |-> tbl.count,
                freed |-> <<>>]
  /\ UNCHANGED <<tbl_elt, tbl_min_num>>
  /\ UNCHANGED <<heap_vars, dll_vars>>

Remove(key) ==
  /\ LET r == ht_divchn_remove(tbl, key, tbl_elt) IN
     /\ tbl' = r.ht
     /\ tbl_elt' = r.elt
  /\ tbl_map' = [tbl_map EXCEPT ![key] = NULL]
  /\ tbl_op' = [name |-> "remove", key |-> key, elt |-> NULL,
                found |-> tbl_map[key] # NULL, count |-> tbl.count,
                freed |-> <<>>]
  /\ UNCHANGED tbl_min_num
  /\ UNCHANGED <<heap_vars, dll_vars>>

Delete(key) ==
  /\ LET r == ht_divchn_delete(tbl, key) IN
     /\ tbl' = r.ht
     /\ tbl_op' = [name |-> "delete", key |-> key, elt |-> NULL,
                   found |-> tbl_map[key] # NULL, count |-> tbl.count,
                   freed |-> r.freed]
  /\ tbl_map' = [tbl_map EXCEPT ![key] = NULL]
  /\ UNCHANGED <<tbl_elt, tbl_min_num>>
  /\ UNCHANGED <<heap_vars, dll_vars>>

NextHt ==
  \/ \E key \in HtKeys, elt \in HtElts : Insert(key, elt)
  \/ \E key \in HtKeys : Remove(key)
  \/ \E key \in HtKeys : Delete(key)

SpecHt == InitHt /\ [][NextHt]_vars

\* a chain on its own, initialized empty
InitDll ==
  /\ no_heap
  /\ no_tbl
  /\ list = dll_init
  /\ list_op = [name |-> "init", key |-> NULL, node |-> NULL,
                built |-> "none"]
  /\ list_hist = <<>>

\* how a chain was built after one more insertion of the given kind
built_by(kind) ==
  IF list_op.built \in {"none", kind} THEN kind ELSE "mixed"

\* a caller that inserts keys that are not in the chain
DllPrepend(key, elt) ==
  /\ dll_search_key(list, key) = NULL
  /\ list' = dll_prepend_new(list, key, elt)
  /\ list_op' = [name |-> "prepend", key |-> key, node |-> NULL,
                 built |-> built_by("prepend")]
  /\ list_hist' = Append(list_hist, key)
  /\ UNCHANGED <<heap_vars, tbl_vars>>

DllAppend(key, elt) ==
  /\ dll_search_key(list, key) = NULL
  /\ list' = dll_append_new(list, key, elt)
  /\ list_op' = [name |-> "append", key |-> key, node |-> NULL,
                 built |-> built_by("append")]
  /\ list_hist' = Append(list_hist, key)
  /\ UNCHANGED <<heap_vars, tbl_vars>>

\* node is NULL or a node of the chain
DllDelete(node) ==
  /\ list' = dll_delete(list, node)
  /\ list_op' = [name |-> "delete",
                 key |-> IF node = NULL THEN NULL ELSE list[node].key,
                 node |-> node,
                 built |-> IF list' = <<>> THEN "none" ELSE list_op.built]
  /\ list_hist' = IF node = NULL THEN list_hist
                  ELSE SelectSeq(list_hist, LAMBDA k : k # list[node].key)
  /\ UNCHANGED <<heap_vars, tbl_vars>>

NextDll ==
  \/ \E key \in HtKeys, elt \in HtElts : DllPrepend(key, elt)
  \/ \E key \in HtKeys, elt \in HtElts : DllAppend(key, elt)
  \/ \E node \in {NULL} \cup DOMAIN list : DllDelete(node)

SpecDll == InitDll /\ [][NextDll]_vars

(* ------------------------------- claims ------------------------------- *)

\* C1: heap order.  Between operations every non-root slot i < num_elts
\* holds a priority that is not less than the priority of its parent slot
\* (i - 1) / 2 under the comparison function.
C1_HeapOrder ==
  \A i \in 1..(h.num_elts - 1) :
    cmp_int(pty_ptr(h, i), pty_ptr(h, (i - 1) \div 2)) >= 0

\* a full three-level heap with unequal priorities, reached by an update
C1_Witness ==
  /\ op.name = "update" /\ ~aborted
  /\ h.num_elts = NumElts
  /\ \E i \in 1..(h.num_elts - 1) : pty_ptr(h, i) # pty_ptr(h, 0)

\* C2: side-index bijection.  The keys of the hash table are exactly the
\* elements in the slots [0, num_elts), each key is mapped to the slot
\* that holds it, and no element is in two slots.
C2_Bijection ==
  /\ \A e \in Keys :
       ht_div_uint32_search(h.ht, e) # NULL
         <=> \E i \in 0..(h.num_elts - 1) : elt_ptr(h, i) = e
  /\ \A e \in Keys :
       LET ix == ht_div_uint32_search(h.ht, e) IN
       ix # NULL => /\ 0 <= ix /\ ix < h.num_elts
                    /\ elt_ptr(h, ix) = e
  /\ \A i, j \in 0..(h.num_elts - 1) : elt_ptr(h, i) = elt_ptr(h, j) => i = j

\* a pop took the root of a heap of four elements (slots 0 and 3 swapped)
C2_Witness ==
  /\ op.name = "pop" /\ op.n = 4
  /\ h.num_elts = 3

\* C3: num_elts equals the number of keys stored in the side index.
C3_NumElts == h.num_elts = ht_num_elts(h.ht)

\* three pops in a row after pushes left one element and one key
C3_Witness ==
  /\ op.name = "pop" /\ op.run = 3
  /\ h.num_elts = 1
  /\ ht_num_elts(h.ht) = 1

\* C4: in a run of pops that follow each other, the priority written by a
\* pop is not less than the priority written by the pop before it.
C4_PopOrder ==
  [][(/\ op.name = "pop" /\ op.run >= 1
      /\ op'.name = "pop" /\ op'.run = op.run + 1)
     => cmp_int(pty_out, pty_out') <= 0]_vars

\* a heap of NumElts elements was popped until empty, ending above priority 0
C4_Witness ==
  /\ op.name = "pop" /\ op.run = NumElts
  /\ h.num_elts = 0
  /\ pty_out > 0

\* C5: a pop of a non-empty heap writes a resident pair whose priority is
\* minimal among the resident priorities, removes that pair only, and leaves
\* every other resident element with its priority.
C5_PopMin ==
  [][(op'.name = "pop" /\ h.num_elts > 0)
     => /\ elt_out' \in Keys
        /\ heap_uint32_search(h, elt_out') = pty_out'
        /\ \A e \in Keys :
             heap_uint32_search(h, e) # NULL
               => cmp_int(pty_out', heap_uint32_search(h, e)) <= 0
        /\ h'.num_elts = h.num_elts - 1
        /\ heap_uint32_search(h', elt_out') = NULL
        /\ \A e \in Keys \ {elt_out'} :
             heap_uint32_search(h', e) = heap_uint32_search(h, e)]_vars

\* a pop of a full heap wrote a priority below one that stays resident
C5_Witness ==
  /\ op.name = "pop" /\ op.n = NumElts
  /\ elt_out \in Keys
  /\ \E e \in Keys : /\ heap_uint32_search(h, e) # NULL
                     /\ heap_uint32_search(h, e) > pty_out

\* C6: search returns the priority of the latest push or update of an
\* element that was pushed and not popped since, and NULL for every other
\* element.
C6_Search == \A e \in Keys : heap_uint32_search(h, e) = assoc[e]

\* an element was popped, another was updated and is found with its priority
C6_Witness ==
  /\ op.name = "update" /\ ~aborted
  /\ heap_uint32_search(h, op.elt) = op.pty
  /\ elt_out \in Keys /\ heap_uint32_search(h, elt_out) = NULL
  /\ h.num_elts >= 2

\* C7: an update of a resident element makes search return the new
\* priority and changes neither num_elts nor any other element's priority;
\* the next pop returns the element if its new priority is below all others
\* and another element if some other priority is below the new one.
C7_Update ==
  [][/\ (op'.name = "update" /\ heap_uint32_search(h, op'.elt) # NULL)
        => /\ ~aborted'
           /\ heap_uint32_search(h', op'.elt) = op'.pty
           /\ h'.num_elts = h.num_elts
           /\ \A e \in Keys \ {op'.elt} :
                heap_uint32_search(h', e) = heap_uint32_search(h, e)
     /\ (op.name = "update" /\ ~aborted /\ op'.name = "pop")
        => LET others == {e \in Keys \ {op.elt} :
                            heap_uint32_search(h, e) # NULL}
           IN /\ (\A e \in others : heap_uint32_search(h, e) > op.pty)
                   => elt_out' = op.elt
              /\ (\E e \in others : heap_uint32_search(h, e) < op.pty)
                   => elt_out' # op.elt]_vars

\* an update gave an element of a full heap a priority above another one
C7_Witness ==
  /\ op.name = "update" /\ ~aborted
  /\ h.num_elts = NumElts
  /\ heap_uint32_search(h, op.elt) = op.pty
  /\ \E e \in Keys : /\ heap_uint32_search(h, e) # NULL
                     /\ heap_uint32_search(h, e) < op.pty

\* C8: a pop of an empty heap leaves the two output blocks and the heap
\* (num_elts, the arrays, the side index) unchanged.
C8_PopEmpty ==
  [][(op'.name = "pop" /\ h.num_elts = 0)
     => /\ pty_out' = pty_out
        /\ elt_out' = elt_out
        /\ h' = h
        /\ ~aborted']_vars

\* an empty heap was popped with blocks that hold an earlier pop's pair
C8_Witness ==
  /\ op.name = "pop" /\ op.n = 0
  /\ elt_out \in Keys /\ pty_out \in Ptys
  /\ h.num_elts = 0

\* C9: an update of an element that is not in the heap aborts and writes
\* no slot of the priority and element arrays.
C9_UpdateAbsent ==
  [][(op'.name = "update" /\ heap_uint32_search(h, op'.elt) = NULL)
     => /\ aborted'
        /\ h'.ptys = h.ptys
        /\ h'.elts = h.elts]_vars

\* the process aborted in an update of the element popped last
C9_Witness ==
  /\ aborted
  /\ op.name = "update"
  /\ op.elt = elt_out
  /\ h.num_elts >= 1

\* the order of the three counts of a heap
C10_Bounds ==
  /\ h.num_elts <= h.heap_size
  /\ h.heap_size <= h.heap_max_size

\* C10: capacity.  num_elts <= heap_size <= heap_max_size in every state; a
\* step that changes heap_size sets it to twice its value if that is at
\* most heap_max_size and to heap_max_size otherwise; growing a full heap
\* keeps num_elts, the side index and the first num_elts pairs, and the
\* push that grew it keeps the priority of every element pushed before.
C10_Capacity ==
  [][/\ C10_Bounds
     /\ C10_Bounds'
     /\ h'.heap_size # h.heap_size
        => /\ h'.heap_size = IF 2 * h.heap_size <= h.heap_max_size
                             THEN 2 * h.heap_size
                             ELSE h.heap_max_size
           /\ LET g == heap_grow(h).h IN
              /\ g.num_elts = h.num_elts
              /\ g.ht = h.ht
              /\ \A i \in 0..(h.num_elts - 1) :
                   /\ elt_ptr(g, i) = elt_ptr(h, i)
                   /\ pty_ptr(g, i) = pty_ptr(h, i)
           /\ \A e \in Keys \ {op'.elt} :
                heap_uint32_search(h', e) = heap_uint32_search(h, e)]_vars

\* the push into a full heap of four slots clamped heap_size to the maximum
C10_Witness ==
  /\ op.name = "push" /\ ~aborted
  /\ op.n = op.size
  /\ 2 * op.size > h.heap_max_size
  /\ h.heap_size = h.heap_max_size
  /\ h.num_elts = op.n + 1

\* C11: push up to the maximal size.  In a run of pushes of distinct
\* elements into a heap that was initialized empty, a push succeeds (the
\* element is resident with its priority, num_elts is one more) as long as
\* num_elts is below heap_max_size; the push at num_elts = heap_max_size is
\* fatal and leaves every slot and every field of the heap as it was.
C11_PushToMax ==
  [][op'.name = "push"
     => IF h.num_elts < h.heap_max_size
        THEN /\ ~aborted'
             /\ h'.num_elts = h.num_elts + 1
             /\ heap_uint32_search(h', op'.elt) = op'.pty
        ELSE /\ aborted'
             /\ h' = h]_vars

\* the push into a heap that holds heap_max_size elements was fatal
C11_Witness ==
  /\ aborted
  /\ op.name = "push"
  /\ op.n = h.heap_max_size
  /\ h.num_elts = h.heap_max_size
  /\ h.heap_size = h.heap_max_size

\* the resident elements other than the one of the last call
C12_Others == {e \in Keys \ {op.elt} : assoc[e] # NULL}

\* C12 as stated: in the state a push of (p, e) left, the pop that follows
\* (heap_uint32_pop applied to this state) writes p and e and sets num_elts
\* to its value before the push, whatever else is resident.
C12_DualityAny ==
  (op.name = "push" /\ ~aborted)
    => LET r == heap_uint32_pop(h, pty_out, elt_out) IN
       /\ r.pty = op.pty
       /\ r.elt = op.elt
       /\ r.h.num_elts = op.n

\* C12 amended: the pop that follows a push of (p, e) sets num_elts to its
\* value before the push; it writes p and e if the heap was empty or p is
\* below the priority of every other resident element; if another resident
\* element has a priority not above p, it writes another element and a
\* priority that is not above p.
C12_Duality ==
  (op.name = "push" /\ ~aborted)
    => LET r == heap_uint32_pop(h, pty_out, elt_out) IN
       /\ ~r.aborted
       /\ r.h.num_elts = op.n
       /\ (\A e \in C12_Others : cmp_int(assoc[e], op.pty) > 0)
            => (r.pty = op.pty /\ r.elt = op.elt)
       /\ (\E e \in C12_Others : cmp_int(assoc[e], op.pty) <= 0)
            => (r.elt # op.elt /\ cmp_int(r.pty, op.pty) <= 0)

\* a push below every priority of a heap of three elements went to the root
C12_Witness ==
  /\ op.name = "push" /\ ~aborted
  /\ op.n = NumElts - 1
  /\ \A e \in C12_Others : cmp_int(assoc[e], op.pty) > 0
  /\ heap_uint32_pop(h, pty_out, elt_out).elt = op.elt

\* C13: update idempotence.  In the state an update of (p, e) left, a second
\* update of (p, e) succeeds and returns the same heap: the two arrays slot
\* by slot, the side index, num_elts and heap_size.
C13_Idempotent ==
  (op.name = "update" /\ ~aborted)
    => LET r == heap_uint32_update(h, op.pty, op.elt) IN
       /\ ~r.aborted
       /\ r.h = h

\* an update left its element in the deepest slot of a full heap, with a
\* priority above the priority of the root
C13_Witness ==
  /\ op.name = "update" /\ ~aborted
  /\ h.num_elts = NumElts
  /\ ht_div_uint32_search(h.ht, op.elt) = NumElts - 1
  /\ cmp_int(op.pty, pty_ptr(h, 0)) > 0

\* C14: an update of a resident element to the priority it has succeeds and
\* returns the same heap (no slot of the two arrays and no entry of the side
\* index changes), so the pops that follow write what they would write
\* without the update.
C14_UpdateEqual ==
  \A e \in Keys :
    heap_uint32_search(h, e) # NULL
      => LET r == heap_uint32_update(h, heap_uint32_search(h, e), e) IN
         /\ ~r.aborted
         /\ r.h = h
         /\ heap_uint32_pop(r.h, pty_out, elt_out)
              = heap_uint32_pop(h, pty_out, elt_out)

\* the element in slot 1 of a full heap has the priority of its parent and
\* of its child, and slot 2 has another priority
C14_Witness ==
  /\ ~aborted
  /\ h.num_elts = NumElts
  /\ pty_ptr(h, 1) = pty_ptr(h, 0)
  /\ pty_ptr(h, 3) = pty_ptr(h, 1)
  /\ pty_ptr(h, 2) # pty_ptr(h, 0)

\* number of calls of free_elt_fn on the block e
C15_Calls(e) == Cardinality({i \in DOMAIN freed : freed[i] = e})

\* C15: free.  After heap_uint32_free of a heap with a free_elt_fn that is
\* not NULL, free_elt_fn was called num_elts times: once on every element
\* that was pushed and not popped, and on no other block, in particular on no
\* element that was popped; with NULL as free_elt_fn it was not called.
C15_Free ==
  op.name = "free"
    => IF h.free_elt_fn # NULL
       THEN /\ Len(freed) = op.n
            /\ \A i \in DOMAIN freed : freed[i] \in Keys
            /\ \A e \in Keys :
                 C15_Calls(e) = IF assoc[e] # NULL THEN 1 ELSE 0
       ELSE freed = <<>>

\* a heap with a destructor was freed with three elements resident, after
\* a pop of an element, which was not passed to the destructor
C15_Witness ==
  /\ op.name = "free"
  /\ h.free_elt_fn # NULL
  /\ Len(freed) = 3
  /\ elt_out \in Keys
  /\ C15_Calls(elt_out) = 0

\* C16: finite map.  After any sequence of inserts, removes and deletes, with
\* the rehashes they trigger, search of a key returns the element of the
\* latest insert of the key that no remove or delete of the key followed,
\* and NULL if there is no such insert.
C16_FiniteMap == \A k \in HtKeys : ht_divchn_search(tbl, k) = tbl_map[k]

\* a delete took a key from a table that had grown to the last prime, and
\* two other keys are found with different elements
C16_Witness ==
  /\ tbl_op.name = "delete" /\ tbl_op.found
  /\ tbl.count_ix = C_LAST_PRIME_IX
  /\ ht_divchn_search(tbl, tbl_op.key) = NULL
  /\ \E j, k \in HtKeys :
       /\ ht_divchn_search(tbl, j) = 0
       /\ ht_divchn_search(tbl, k) = MaxVal

\* the keys of the nodes of a table
C17_Keys(ht) ==
  LET nodes == ht_nodes(ht, 0) IN {nodes[i].key : i \in DOMAIN nodes}

\* num_elts is the number of nodes and the number of distinct keys
C17_Count(ht) ==
  /\ ht.num_elts = Len(ht_nodes(ht, 0))
  /\ ht.num_elts = Cardinality(C17_Keys(ht))

\* C17: upsert.  An insert of a key that is present changes its element,
\* adds no node and keeps num_elts; an insert of an absent key adds one node
\* and increments num_elts by one; in both cases search returns the new
\* element and every other key keeps its element; num_elts is the number
\* of nodes and of distinct keys before and after every call.
C17_Upsert ==
  [][/\ C17_Count(tbl)
     /\ C17_Count(tbl')
     /\ tbl_op'.name = "insert"
        => LET k == tbl_op'.key IN
           /\ ht_divchn_search(tbl', k) = tbl_op'.elt
           /\ \A j \in HtKeys \ {k} :
                ht_divchn_search(tbl', j) = ht_divchn_search(tbl, j)
           /\ IF k \in C17_Keys(tbl)
              THEN /\ tbl'.num_elts = tbl.num_elts
                   /\ Len(ht_nodes(tbl', 0)) = Len(ht_nodes(tbl, 0))
                   /\ C17_Keys(tbl') = C17_Keys(tbl)
              ELSE /\ tbl'.num_elts = tbl.num_elts + 1
                   /\ Len(ht_nodes(tbl', 0)) = Len(ht_nodes(tbl, 0)) + 1
                   /\ C17_Keys(tbl') = C17_Keys(tbl) \cup {k}]_vars

\* an insert changed the element of a key that was present in a table with
\* two more keys
C17_Witness ==
  /\ tbl_op.name = "insert" /\ tbl_op.found
  /\ tbl.num_elts = 3
  /\ ht_divchn_search(tbl, tbl_op.key) = tbl_op.elt
  /\ \E k \in HtKeys : /\ ht_divchn_search(tbl, k) # NULL
                       /\ ht_divchn_search(tbl, k) # tbl_op.elt

\* C18: remove.  A remove of a key that is present copies its element into
\* the block of the caller, after it the key is not found, num_elts is one
\* less and every other key keeps its element; a remove of an absent key
\* leaves the block and the table (keys, elements, num_elts, count) as they
\* were and does not end the process.
C18_Remove ==
  [][tbl_op'.name = "remove"
     => LET k == tbl_op'.key IN
        /\ ~aborted'
        /\ IF ht_divchn_search(tbl, k) # NULL
           THEN /\ tbl_elt' = ht_divchn_search(tbl, k)
                /\ ht_divchn_search(tbl', k) = NULL
                /\ tbl'.num_elts = tbl.num_elts - 1
                /\ \A j \in HtKeys \ {k} :
                     ht_divchn_search(tbl', j) = ht_divchn_search(tbl, j)
           ELSE /\ tbl_elt' = tbl_elt
                /\ tbl' = tbl]_vars

\* a remove of an absent key: the block holds the element of an earlier
\* remove and the table holds two keys
C18_Witness ==
  /\ tbl_op.name = "remove" /\ ~tbl_op.found
  /\ tbl_elt \in HtElts
  /\ tbl.num_elts = 2

\* C19: delete.  A delete of a key that is present drops the key, calls
\* free_elt, if it is not NULL, once, on the element of the key, and on
\* nothing else, decrements num_elts and writes no block of the caller; a
\* delete of an absent key leaves the table as it was and does not call
\* free_elt.
C19_Delete ==
  [][tbl_op'.name = "delete"
     => LET k == tbl_op'.key IN
        /\ tbl_elt' = tbl_elt
        /\ IF ht_divchn_search(tbl, k) # NULL
           THEN /\ ht_divchn_search(tbl', k) = NULL
                /\ tbl'.num_elts = tbl.num_elts - 1
                /\ tbl_op'.freed = IF tbl.free_elt # NULL
                                   THEN <<ht_divchn_search(tbl, k)>>
                                   ELSE <<>>
                /\ \A j \in HtKeys \ {k} :
                     ht_divchn_search(tbl', j) = ht_divchn_search(tbl, j)
           ELSE /\ tbl' = tbl
                /\ tbl_op'.freed = <<>>]_vars

\* a delete dropped a key of a table with a destructor, which was called
\* on an element that differs from the element of a key that stays
C19_Witness ==
  /\ tbl_op.name = "delete" /\ tbl_op.found
  /\ tbl.free_elt # NULL
  /\ Len(tbl_op.freed) = 1
  /\ \E k \in HtKeys : /\ ht_divchn_search(tbl, k) # NULL
                       /\ ht_divchn_search(tbl, k) # tbl_op.freed[1]

C21_Rehash ==
  [][tbl'.count # tbl.count
     => /\ tbl_op'.name = "insert"
        /\ tbl'.count > tbl.count
        /\ tbl'.count_ix > tbl.count_ix
        /\ tbl'.count = C_PRIME_PARTS[tbl'.count_ix]
        /\ DOMAIN tbl'.key_elts = 0..(tbl'.count - 1)
        /\ \A k \in HtKeys \ {tbl_op'.key} :
             ht_divchn_search(tbl', k) = ht_divchn_search(tbl, k)
        /\ C17_Keys(tbl') = C17_Keys(tbl) \cup {tbl_op'.key}
        /\ tbl'.num_elts = tbl.num_elts + 1
        /\ Len(ht_nodes(tbl', 0)) = Len(ht_nodes(tbl, 0)) + 1
        /\ \A ix \in DOMAIN tbl'.key_elts :
             \A i \in DOMAIN tbl'.key_elts[ix] :
               hash(tbl'.key_elts[ix][i].key, tbl'.count) = ix]_vars

\* an insert grew a table, and two of the nodes rehashed are in one chain
C21_Witness ==
  /\ tbl_op.name = "insert"
  /\ tbl_op.count # 0 /\ tbl_op.count < tbl.count
  /\ tbl.num_elts >= 3
  /\ \E ix \in DOMAIN tbl.key_elts : Len(tbl.key_elts[ix]) >= 2

\* the number of keys n exceeds the load factor bound of a table at the
\* prime with index ix
C22_Exceeded(n, ix) ==
  n * pow_two_uint64(tbl.log_alpha_d) > C_PRIME_PARTS[ix] * tbl.alpha_n

C23_Present == {list_hist[i] : i \in DOMAIN list_hist}

\* C23: chain deletion and search.  dll_delete with NULL as the node leaves
\* the chain as it is; a delete of the head node makes the former second
\* node the head, which is the node inserted before the node deleted in a
\* chain built by prepends and the node inserted after it in a chain built by
\* appends; a delete of the only node leaves the head NULL; dll_search_key
\* returns a node exactly for the keys in the chain, and NULL for every key
\* on an empty chain.
C23_Delete ==
  [][/\ \A k \in HtKeys : dll_search_key(list, k) # NULL <=> k \in C23_Present
     /\ \A k \in HtKeys :
          dll_search_key(list', k) # NULL <=> k \in C23_Present'
     /\ list = <<>> => \A k \in HtKeys : dll_search_key(list, k) = NULL
     /\ (list_op'.name = "delete" /\ list_op'.node = NULL) => list' = list
     /\ (list_op'.name = "delete" /\ list_op'.node = 1)
        => /\ Len(list) = 1 => list' = <<>>
           /\ Len(list) >= 2
              => /\ list'[1] = list[2]
                 /\ list_op.built = "prepend"
                    => /\ list[1].key = list_hist[Len(list_hist)]
                       /\ list'[1].key = list_hist[Len(list_hist) - 1]
                 /\ list_op.built = "append"
                    => /\ list[1].key = list_hist[1]
                       /\ list'[1].key = list_hist[2]]_vars

\* the head of a chain of three nodes built by appends was deleted
C23_Witness ==
  /\ list_op.name = "delete" /\ list_op.node = 1
  /\ list_op.built = "append"
  /\ Len(list) = 2
  /\ dll_search_key(list, list_op.key) = NULL

RECURSIVE C24_sift_down(_, _)
\* the specified sift-down from slot i: the heap it leaves and its swaps
C24_sift_down(hp, i) ==
  LET l == 2 * i + 1
      r == 2 * i + 2
  IN IF l >= hp.num_elts THEN [h |-> hp, swaps |-> <<>>]
     ELSE LET c == IF r >= hp.num_elts
                      \/ cmp_int(hp.ptys[l], hp.ptys[r]) <= 0
                   THEN l ELSE r
          IN IF cmp_int(hp.ptys[i], hp.ptys[c]) > 0
             THEN LET d == C24_sift_down(swap(hp, i, c), c)
                  IN [h |-> d.h, swaps |-> <<<<i, c>>>> \o d.swaps]
             ELSE [h |-> hp, swaps |-> <<>>]

\* the slot where a sequence of swaps that starts at slot i ends
C24_End(i, swaps) == IF swaps = <<>> THEN i ELSE swaps[Len(swaps)][2]

\* C24: heapify_down refines the specified sift-down.  In every call of
\* heapify_down that update or pop can make, heapify_down leaves the heap
\* that the specified sift-down leaves (no left child: stop; the left child
\* if there is no right child or cmp(P[l], P[r]) <= 0, else the right child;
\* swap only if cmp(P[i], P[c]) > 0), with the element of the start slot at
\* the slot where the swaps of the specified sift-down end: the same swaps.
C24_SiftDown ==
  \A a \in heapify_down_args :
    LET d == heapify_down(a.h, a.i)
        s == C24_sift_down(a.h, a.i)
    IN /\ ~d.aborted
       /\ d.h = s.h
       /\ elt_ptr(d.h, C24_End(a.i, s.swaps)) = elt_ptr(a.h, a.i)

\* a call of heapify_down with two swaps, the first one with a left child
\* that ties with the right child
C24_Witness ==
  \E a \in heapify_down_args :
    LET s == C24_sift_down(a.h, a.i)
    IN /\ Len(s.swaps) = 2
       /\ s.swaps[1] = <<0, 1>>
       /\ a.h.num_elts >= 5
       /\ a.h.ptys[1] = a.h.ptys[2]
       /\ heapify_down(a.h, a.i).h = s.h

\* the sift-up of an update moved the element
C25_UpMoved(a) == heapify_up(a.h, a.i) # a.h

\* the sift-down of an update, after its sift-up, moved an element
C25_DownMoved(a) ==
  heapify_down(heapify_up(a.h, a.i), a.i).h # heapify_up(a.h, a.i)

\* the priorities of the children of slot i
C25_Children(hp, i) ==
  {hp.ptys[j] : j \in {k \in {2 * i + 1, 2 * i + 2} : k < hp.num_elts}}

\* C25 as stated: in every update exactly one of the sift-up and the
\* sift-down that follows it swaps at least once.
C25_ExactlyOne ==
  \A a \in update_heapify_up_args : C25_UpMoved(a) # C25_DownMoved(a)

\* C25, amended: in every update at most one of the sift-up from slot I and
\* the sift-down from slot I that follows it swaps at least once: the sift-up
\* iff the new priority is below the priority of the parent, the sift-down
\* iff it is above the priority of a child; neither does if the new priority
\* is between them, as it is when it equals the old one.
C25_AtMostOne ==
  \A a \in update_heapify_up_args :
    /\ ~(C25_UpMoved(a) /\ C25_DownMoved(a))
    /\ C25_UpMoved(a)
       <=> (a.i > 0 /\ a.h.ptys[a.i] < a.h.ptys[(a.i - 1) \div 2])
    /\ C25_DownMoved(a)
       <=> \E p \in C25_Children(a.h, a.i) : a.h.ptys[a.i] > p
    /\ a.h.ptys[a.i] = h.ptys[a.i]
       => ~C25_UpMoved(a) /\ ~C25_DownMoved(a)

\* a heap with an update that sifts up, one that sifts down, and one to a
\* different priority that moves nothing
C25_Witness ==
  /\ \E a \in update_heapify_up_args : C25_UpMoved(a) /\ ~C25_DownMoved(a)
  /\ \E a \in update_heapify_up_args : C25_DownMoved(a) /\ ~C25_UpMoved(a)
  /\ \E a \in update_heapify_up_args :
       /\ ~C25_UpMoved(a) /\ ~C25_DownMoved(a)
       /\ a.h.ptys[a.i] # h.ptys[a.i]

\* the slots of the heap that hold element e
C26_Slots(hp, e) == {i \in 0..(hp.num_elts - 1) : elt_ptr(hp, i) = e}

\* C26: a push of an element that is in the heap breaks the invariants.  If
\* the push does not fail on a full heap, two slots hold the element while
\* the side index still has one key for it, mapped to one of the two slots
\* (the insertion into the side index replaced the slot of the key), so that
\* num_elts is the number of keys of the side index plus one.
C26_DuplicatePush ==
  ~aborted =>
    \A e \in {k \in Keys : ht_div_uint32_search(h.ht, k) # NULL},
       p \in SiftPtys :
      LET r == heap_uint32_push(h, p, e)
      IN ~r.aborted =>
           /\ r.h.num_elts = h.num_elts + 1
           /\ Cardinality(C26_Slots(h, e)) = 1
           /\ Cardinality(C26_Slots(r.h, e)) = 2
           /\ ht_div_uint32_search(r.h.ht, e) \in C26_Slots(r.h, e)
           /\ ht_num_elts(r.h.ht) = ht_num_elts(h.ht)
           /\ r.h.num_elts = ht_num_elts(r.h.ht) + 1
           /\ \A k \in Keys \ {e} :
                /\ Cardinality(C26_Slots(r.h, k)) = Cardinality(C26_Slots(h, k))
                /\ ht_div_uint32_search(r.h.ht, k) # NULL
                   => C26_Slots(r.h, k) = {ht_div_uint32_search(r.h.ht, k)}

\* a heap where a second push of a resident element sifts the new copy above
\* the slot of the old one
C26_Witness ==
  /\ ~aborted
  /\ h.num_elts >= 3
  /\ \E e \in {k \in Keys : ht_div_uint32_search(h.ht, k) # NULL} :
       LET r == heap_uint32_push(h, 0, e)
       IN /\ ~r.aborted
          /\ ht_div_uint32_search(h.ht, e) > 0
          /\ ht_div_uint32_search(r.h.ht, e) = 0
          /\ C26_Slots(r.h, e) = {0, ht_div_uint32_search(h.ht, e)}

\* the number of elements that were pushed before the pops started
C27_Pushed == op.n + op.run - 1

\* C27: no FIFO order among elements of equal priority.  After pushes of
\* the elements 1, 2, ..., n, in this order and with one priority, the pops
\* return 1, n, n - 1, ..., 2: from three elements on, the second pop returns
\* the element pushed last, while elements pushed before it are in the heap.
C27_NoFifo ==
  (~aborted /\ op.name = "pop" /\ op.run >= 1)
    => /\ elt_out = IF op.run = 1 THEN 1 ELSE C27_Pushed + 2 - op.run
       /\ \A e \in Keys : assoc[e] # NULL => assoc[e] = pty_out
       /\ (op.run = 2 /\ C27_Pushed >= 3)
          => /\ elt_out > 2
             /\ assoc[2] = pty_out

\* two pops after three or more pushes of one priority: the second pop
\* returned an element pushed after element 2, which is still in the heap
C27_Witness ==
  /\ ~aborted
  /\ op.name = "pop" /\ op.run = 2
  /\ elt_out > 2
  /\ assoc[2] # NULL /\ assoc[2] = pty_out
  /\ heap_uint32_pop(h, pty_out, elt_out).elt < elt_out

\* every key of the side index maps to a slot below n that holds the key
C28_Consistent(hp, n) ==
  \A k \in Keys :
    ht_div_uint32_search(hp.ht, k) # NULL
      => /\ ht_div_uint32_search(hp.ht, k) < n
         /\ elt_ptr(hp, ht_div_uint32_search(hp.ht, k)) = k

\* the heap after the swap of a pop, after its removal from the side
\* index, and after its decrement of num_elts
C28_Swapped(hp) == swap(hp, 0, u32(hp.num_elts - 1))
C28_Removed(hp) ==
  [C28_Swapped(hp) EXCEPT
     !.ht = ht_div_uint32_remove(C28_Swapped(hp).ht, elt_ptr(hp, 0))]
C28_Decremented(hp) ==
  [C28_Removed(hp) EXCEPT !.num_elts = u32(hp.num_elts - 1)]

\* C28: the side index is consistent at every step of a pop.  After the
\* swap of slot 0 with slot num_elts - 1, after the removal of the popped
\* element from the side index, after the decrement of num_elts and after
\* every swap of the sift-down, every key of the side index maps to a slot
\* of the heap that holds the key; also with one element (no swap) or two.
C28_PopSteps ==
  (~aborted /\ h.num_elts > 0) =>
    LET h3    == C28_Decremented(h)
        swaps == IF h3.num_elts > 0 THEN heapify_down_swaps(h3, 0) ELSE <<>>
    IN /\ C28_Consistent(C28_Swapped(h), h.num_elts)
       /\ C28_Consistent(C28_Removed(h), h.num_elts - 1)
       /\ C28_Consistent(h3, h3.num_elts)
       /\ \A k \in 0..Len(swaps) :
            C28_Consistent(swaps_apply(h3, swaps, k), h3.num_elts)
       /\ swaps_apply(h3, swaps, Len(swaps))
            = heap_uint32_pop(h, pty_out, elt_out).h
       /\ ht_div_uint32_search(C28_Swapped(h).ht, elt_ptr(h, 0))
            = h.num_elts - 1
       /\ ht_div_uint32_search(h3.ht, elt_ptr(h, 0)) = NULL

\* a heap whose pop makes two swaps in its sift-down
C28_Witness ==
  /\ ~aborted
  /\ h.num_elts >= 5
  /\ Len(heapify_down_swaps(C28_Decremented(h), 0)) = 2
  /\ C28_Swapped(h) # h

\* x is a value of the index type: computing it does not wrap around
C29_Fits(x) == 0 <= x /\ x < pow_two_uint64(IndexBits)

\* the values of i in the iterations of a loop that starts at slot i and
\* makes the given swaps
C29_Visited(i, swaps) == {i} \cup {swaps[k][2] : k \in DOMAIN swaps}

\* C29: the index arithmetic does not wrap around.  With the maximal heap
\* size 2^w - 2 and a start slot below num_elts, in every call of
\* heapify_down and heapify_up that push, update and pop can make, i + 2,
\* num_elts - 1 - i, i + 1, and where they are computed 2i + 1, 2i + 2 and
\* i - 1, are values of the index type, every slot read is below num_elts,
\* and heap_grow doubles heap_size only to a value of the index type that is
\* at most the maximal heap size.
C29_NoWrap ==
  /\ h.num_elts <= h.heap_size /\ h.heap_size <= h.heap_max_size
  /\ \A a \in heapify_down_args :
       LET n == a.h.num_elts
           r == heapify_down_loop(a.h, a.i)
       IN /\ \A i \in C29_Visited(a.i, heapify_down_loop_swaps(a.h, a.i)) :
               /\ i < n
               /\ C29_Fits(i + 2) /\ C29_Fits(n - 1 - i)
               /\ i + 2 <= n - 1 - i
                  => /\ C29_Fits(2 * i + 1) /\ C29_Fits(2 * i + 2)
                     /\ 2 * i + 2 < n
          /\ r.i \in C29_Visited(a.i, heapify_down_loop_swaps(a.h, a.i))
          /\ C29_Fits(r.i + 1)
          /\ r.i + 1 = n - 1 - r.i
             => C29_Fits(2 * r.i + 1) /\ 2 * r.i + 1 < n
  /\ \A a \in update_heapify_up_args \cup push_heapify_up_args :
       \A i \in C29_Visited(a.i, heapify_up_swaps(a.h, a.i)) :
         /\ i < a.h.num_elts
         /\ i > 0 => C29_Fits(i - 1) /\ (i - 1) \div 2 < i
  /\ (~aborted /\ h.heap_size = h.num_elts /\ h.heap_size < h.heap_max_size)
     => /\ C29_Fits(h.heap_max_size - h.heap_size)
        /\ ~(h.heap_max_size - h.heap_size < h.heap_size)
           => C29_Fits(h.heap_size * 2)
        /\ heap_grow(h).h.heap_size > h.heap_size
        /\ heap_grow(h).h.heap_size <= h.heap_max_size

\* a heap of the maximal size with a call of heapify_down from its last
\* slot, where i + 2 is the largest value of the index type, and a call with
\* a swap in its loop
C29_Witness ==
  /\ ~aborted
  /\ h.num_elts = pow_two_uint64(IndexBits) - 2
  /\ \E a \in heapify_down_args :
       a.i + 2 = pow_two_uint64(IndexBits) - 1
  /\ \E a \in heapify_down_args :
       Len(heapify_down_loop_swaps(a.h, a.i)) >= 1

RECURSIVE C30_Depth(_)
\* the depth of the last slot of a heap of n elements: floor(log2(n))
C30_Depth(n) == IF n <= 1 THEN 0 ELSE 1 + C30_Depth(n \div 2)

\* the swaps start at slot i, each one starts where the one before ended
C30_Chained(i, swaps) ==
  \A k \in DOMAIN swaps :
    swaps[k][1] = IF k = 1 THEN i ELSE swaps[k - 1][2]

\* C30: push, update and pop terminate.  In every call that push, update
\* and pop can make, heapify_up moves i to the parent on each swap, a smaller
\* slot, and stops at slot 0 or at a parent that is not greater; heapify_down
\* moves i to a child on each swap, a larger slot, and stops when there is no
\* child or no child is smaller; neither makes more swaps than the depth of
\* the heap; and none of the three operations fails on its way.
C30_Terminates ==
  /\ \A a \in update_heapify_up_args \cup push_heapify_up_args :
       LET swaps == heapify_up_swaps(a.h, a.i)
           r     == heapify_up(a.h, a.i)
           j     == C24_End(a.i, swaps)
       IN /\ r = swaps_apply(a.h, swaps, Len(swaps))
          /\ C30_Chained(a.i, swaps)
          /\ \A k \in DOMAIN swaps :
               /\ swaps[k][2] = (swaps[k][1] - 1) \div 2
               /\ swaps[k][2] < swaps[k][1]
          /\ Len(swaps) <= C30_Depth(a.i + 1)
          /\ Len(swaps) <= C30_Depth(a.h.num_elts)
          /\ elt_ptr(r, j) = elt_ptr(a.h, a.i)
          /\ j = 0 \/ ~(r.ptys[(j - 1) \div 2] > r.ptys[j])
  /\ \A a \in heapify_down_args :
       LET swaps == heapify_down_swaps(a.h, a.i)
           d     == heapify_down(a.h, a.i)
           j     == C24_End(a.i, swaps)
       IN /\ ~d.aborted
          /\ d.h = swaps_apply(a.h, swaps, Len(swaps))
          /\ C30_Chained(a.i, swaps)
          /\ \A k \in DOMAIN swaps :
               /\ swaps[k][2] \in {2 * swaps[k][1] + 1, 2 * swaps[k][1] + 2}
               /\ swaps[k][2] > swaps[k][1]
               /\ swaps[k][2] < a.h.num_elts
          /\ Len(swaps) <= C30_Depth(a.h.num_elts) - C30_Depth(a.i + 1)
          /\ elt_ptr(d.h, j) = elt_ptr(a.h, a.i)
          /\ \A c \in {2 * j + 1, 2 * j + 2} :
               c < d.h.num_elts => ~(d.h.ptys[j] > d.h.ptys[c])
  /\ ~aborted
     => /\ ~heap_uint32_pop(h, pty_out, elt_out).aborted
        /\ \A e \in Keys, p \in SiftPtys :
             /\ ht_div_uint32_search(h.ht, e) # NULL
                => ~heap_uint32_update(h, p, e).aborted
             /\ (ht_div_uint32_search(h.ht, e) = NULL
                 /\ h.num_elts < h.heap_max_size)
                => ~heap_uint32_push(h, p, e).aborted

\* a heap of depth 2 with a push that swaps up to slot 0 and an update that
\* swaps down from slot 0 to the last level, two swaps each
C30_Witness ==
  /\ C30_Depth(h.num_elts) = 2
  /\ \E a \in push_heapify_up_args :
       /\ Len(heapify_up_swaps(a.h, a.i)) = 2
       /\ C24_End(a.i, heapify_up_swaps(a.h, a.i)) = 0
  /\ \E a \in heapify_down_args :
       /\ a.i = 0
       /\ Len(heapify_down_swaps(a.h, a.i)) = C30_Depth(a.h.num_elts)
       /\ Len(heapify_down_swaps(a.h, a.i)) = 2

====
